---- MODULE Spec2Model ----
(***************************************************************************)
(* robert-ssh: an SSH server that serves a bouncing-sprite animation.      *)
(*                                                                         *)
(* The model follows src/src/server.rs (AppServer, TerminalHandle and the  *)
(* russh Handler callbacks) and src/src/app.rs (App::draw and the          *)
(* reflection policy).  Every await point of the code is a step boundary:  *)
(* a callback is split exactly where it awaits the Registry lock, a sleep  *)
(* or a send to the client.                                                *)
(*                                                                         *)
(* Real numbers of the code are multiples of 0.5; the model stores them in *)
(* half units (F(i, h) is i + h/2), which makes the f64 arithmetic of the  *)
(* code exact integer arithmetic.                                          *)
(***************************************************************************)
EXTENDS Integers, FiniteSets, Sequences, TLC

\* ---------------------------------------------------------------- bounds
MaxConns == 2      \* connections the server accepts
MaxChans == 2      \* session channels a client opens on one connection
MaxTicks == 1      \* scheduler ticks
MaxQueue == 1      \* frames counted in a forwarding channel (it is unbounded)
MaxEvents == 6     \* events the clients cause (connect, requests, input, close)
MaxAnimTicks == 8  \* ticks of the animation of a single session (AnimSpec)
MaxGlideTicks == 50 \* ticks of that animation in a target of GlideSize
MaxImgCols == 2    \* columns of a sprite image
MaxImgRows == 3    \* rows of a sprite image

Conns == 1..MaxConns
Chans == 1..MaxChans
Fwds  == Conns \X Chans

\* ------------------------------------------------- fixed point, constants
F(i, h) == 2 * i + h

CruiseX == F(1, 1)      \* 1.5
BurstX  == F(20, 0)     \* 20.0
CruiseY == F(1, 0)      \* 1.0
BurstY  == F(5, 0)      \* 5.0
MarginX == F(32, 0)     \* 32.0
MarginY == F(16, 0)     \* 16.0
InitSx  == -F(1, 1)     \* -1.5
InitSy  == -F(1, 0)     \* -1.0
U16     == 65536

\* terminal sizes a client announces (cols, rows): u32 values
Sizes == {<<80, 24>>, <<U16 + 80, 24>>}

\* ------------------------------------------------------------------ state
VARIABLES
    id,        \* AppServer.id of the listening server (the next handler id)
    hstate,    \* hstate[c]: "none" | "live" | "dropped"  (the handler clone)
    hid,       \* hid[c]: AppServer.id of connection c's handler
    hpc,       \* hpc[c]: position of the handler inside its current callback
    hcall,     \* hcall[c]: arguments and locals of the current callback
    chan,      \* chan[c][ch]: "none" | "opening" | "open" | "closing" | "closed"
    clients,   \* the Registry: HashMap<usize, (SshTerminal, App)>
    lock,      \* holder of the tokio Mutex around clients
    spc,       \* position of the scheduler task
    todo,      \* ids the running tick has still to draw
    ticks,     \* ticks started
    dpc,       \* dpc[c]: the removal task spawned by Drop:
               \*   "none" | "spawned" | "locked" | "done" | "panicked"
    fpc,       \* fpc[k]: forwarding task of TerminalHandle k = <<c, ch>>:
               \*   "none" | "recv" | "send" | "failed" | "done"
    fq,        \* fq[k]: frames waiting in k's unbounded channel
    events,    \* client events delivered so far
    files      \* the sprite files in the working directory:
               \*   files.normal is ./normal.png, files.scared is ./scared.png

vars == <<id, hstate, hid, hpc, hcall, chan, clients, lock, spc, todo, ticks,
          dpc, fpc, fq, events, files>>

hvars == <<hstate, hid, hpc, hcall, chan>>
svars == <<spc, todo, ticks>>
fvars == <<fpc, fq>>

Free     == <<"free", 0>>
Sched    == <<"sched", 0>>
H(c)     == <<"handler", c>>
D(c)     == <<"drop", c>>

\* mutant: the caller takes the map without waiting for the holder
Acquire_NoWait(who) ==
    lock' = who

\* clients.lock().await: the caller goes on once nobody holds the Mutex
Acquire(who) ==
    /\ lock = Free
    /\ lock' = who

IdleCall == [cb |-> "none", ch |-> 0, w |-> 0, h |-> 0,
             reset |-> "none", closeErr |-> FALSE, ret |-> "none",
             normal |-> << >>, scared |-> << >>]

\* --------------------------------------------------------------- Registry
RegistryInsert(m, k, e) ==
    [x \in DOMAIN m \cup {k} |-> IF x = k THEN e ELSE m[x]]

\* mutant: the removal empties the map (clear() for remove(&id))
RegistryRemove_Clear(m, k) ==
    << >>

\* mutant: the removal leaves the entry in the map
RegistryRemove_Keep(m, k) ==
    m

RegistryRemove(m, k) ==
    [x \in DOMAIN m \ {k} |-> m[x]]

\* Terminal::resize on a Fixed viewport: the viewport area becomes rect
TerminalResize(e, rect) ==
    [e EXCEPT !.width = rect[1], !.height = rect[2]]

\* Rect { width: col_width as u16, height: row_height as u16 }
MkRect(cols, rows) == <<cols % U16, rows % U16>>

\* the App and terminal channel_open_session builds for channel ch of c;
\* current_map is the field the last draw painted
NewEntry(c, ch, normal, scared) ==
    [handle |-> <<c, ch>>, width |-> 0, height |-> 0,
     offset |-> <<0, 0>>, sx |-> InitSx, sy |-> InitSy,
     normal_pixel_map |-> normal, scared_pixel_map |-> scared,
     current_map |-> "none"]

\* ------------------------------------------------------------- App (app.rs)
Signum(v) == IF v < 0 THEN -1 ELSE 1

\* f64::abs
Abs(v) == IF v < 0 THEN -v ELSE v

\* mutant: the new magnitude is given the old direction
reverse_sy_Keep(app, magnitude) == [app EXCEPT !.sy = Signum(app.sy) * magnitude]

reverse_sy(app, magnitude) == [app EXCEPT !.sy = -Signum(app.sy) * magnitude]
\* mutant: the reflected x-velocity is stored in the y-velocity
reverse_sx_WrongAxis(app, magnitude) == [app EXCEPT !.sy = -Signum(app.sx) * magnitude]

reverse_sx(app, magnitude) == [app EXCEPT !.sx = -Signum(app.sx) * magnitude]

\* generate_magnitude: the burst value or the default, by the rng
MagnitudesX == {BurstX, CruiseX}
MagnitudesY == {BurstY, CruiseY}

check_bounds(app, width, height, my1, my2, mx1, mx2) ==
    LET a1 == IF app.offset[2] > 0 THEN reverse_sy(app, my1) ELSE app
        a2 == IF a1.offset[2] < -(F(height, 0) - MarginY)
              THEN reverse_sy(a1, my2) ELSE a1
        a3 == IF a2.offset[1] < -(F(width, 0) - MarginX)
              THEN reverse_sx(a2, mx1) ELSE a2
        a4 == IF a3.offset[1] > 0 THEN reverse_sx(a3, mx2) ELSE a3
    IN  a4

\* mutant: the Euler step is taken with the velocity the tick started with,
\* and the boundary check comes after it
AppDraw_StepFirst(app, my1, my2, mx1, mx2) ==
    LET a == [app EXCEPT !.offset = <<app.offset[1] + app.sx, app.offset[2] + app.sy>>]
        b == check_bounds(a, a.width, a.height, my1, my2, mx1, mx2)
    IN  [b EXCEPT !.current_map =
            IF Abs(b.sx) > F(2, 0) \/ Abs(b.sy) > F(2, 0) THEN "scared" ELSE "normal"]

is_scared(app) ==
    \/ (IF app.sx < 0 THEN -app.sx ELSE app.sx) > F(2, 0)
    \/ (IF app.sy < 0 THEN -app.sy ELSE app.sy) > F(2, 0)

\* check_bounds, the Euler step, then the paint closure picks the field
AppDraw(app, my1, my2, mx1, mx2) ==
    LET b == check_bounds(app, app.width, app.height, my1, my2, mx1, mx2)
    IN  [b EXCEPT !.offset = <<b.offset[1] + b.sx, b.offset[2] + b.sy>>,
                  !.current_map = IF is_scared(b) THEN "scared" ELSE "normal"]

\* --------------------------------------------- sprite files, the loader
\* What ImageReader::open(file).decode() gives: an image of w columns and h
\* rows whose px maps <<column, row>> to the pixel's colour, or Missing when
\* there is no file or it does not decode.
Missing == [w |-> 0, h |-> 0, px |-> << >>]
Colours == {"black", "white"}

ImagesOf(w, h) ==
    {[w |-> w, h |-> h, px |-> p] : p \in [(0..(w - 1)) \X (0..(h - 1)) -> Colours]}

Images == UNION {ImagesOf(w, h) : w \in 1..MaxImgCols, h \in 1..MaxImgRows}

\* the two files of a deployment, one pixel each
NormalPng == [w |-> 1, h |-> 1, px |-> [p \in {<<0, 0>>} |-> "white"]]
ScaredPng == [w |-> 1, h |-> 1, px |-> [p \in {<<0, 0>>} |-> "black"]]

\* enumerate_pixels: row by row, the columns of a row from left to right
enumerate_pixels(img) ==
    [i \in 1..(img.w * img.h) |-> <<(i - 1) % img.w, (i - 1) \div img.w>>]

\* mutant: every row is halved (actual_y = y * 0.5)
KeyY_NoSquash(r) == r

\* actual_y = y * (f64::from(y > 1.0) * 0.5), in half units
KeyY(r) == r * (IF r > 1 THEN 1 ELSE 0)

\* the key of the source pixel at column c, row r
PixelKey(c, r) == <<F(c, 0), KeyY(r)>>

\* HashMap::insert: a later pair replaces an earlier one with the same key
PixelMapInsert(m, k, v) ==
    [x \in DOMAIN m \cup {k} |-> IF x = k THEN v ELSE m[x]]

\* .collect::<PixelMap>() of the pairs, in the order of enumerate_pixels
RECURSIVE Collect(_, _, _)
Collect(img, ps, m) ==
    IF ps = << >>
    THEN m
    ELSE LET p == Head(ps)
         IN  Collect(img, Tail(ps),
                     PixelMapInsert(m, PixelKey(p[1], p[2]), img.px[p]))

load_to_pixel_map(img) == Collect(img, enumerate_pixels(img), << >>)

\* ----------------------------------------------------------- TerminalHandle
\* The UnboundedSender of k lives in the terminal of a Registry entry, or in
\* the terminal channel_open_session is still holding.
SenderAlive(k) ==
    \/ \E x \in DOMAIN clients : clients[x].handle = k
    \/ /\ hpc[k[1]] \in {"open_load", "open_sleep", "open_insert"}
       /\ hcall[k[1]].ch = k[2]

\* flush: sender.send(sink.clone()), n times; the channel is unbounded and the
\* model counts its frames up to MaxQueue ("MaxQueue or more")
EnqueueN(q, k, n) ==
    [q EXCEPT ![k] = IF q[k] + n < MaxQueue THEN q[k] + n ELSE MaxQueue]

Enqueue(q, k) == EnqueueN(q, k, 1)

\* Terminal::resize clears the new viewport through the backend, which
\* flushes a cursor move and a clear for every row of it
ResizeFrames(rect) == 2 * rect[2]

\* ------------------------------------------------------------------- Init
\* the process has started: nothing is registered and nobody is connected;
\* fileset is what the working directory may hold
Boot(fileset) ==
    /\ events = 0
    /\ id = 0
    /\ hstate = [c \in Conns |-> "none"]
    /\ hid = [c \in Conns |-> 0]
    /\ hpc = [c \in Conns |-> "idle"]
    /\ hcall = [c \in Conns |-> IdleCall]
    /\ chan = [c \in Conns |-> [ch \in Chans |-> "none"]]
    /\ clients = << >>
    /\ lock = Free
    /\ spc = "sleep"
    /\ todo = {}
    /\ ticks = 0
    /\ dpc = [c \in Conns |-> "none"]
    /\ fpc = [k \in Fwds |-> "none"]
    /\ fq = [k \in Fwds |-> 0]
    /\ files \in fileset

Init == Boot([normal : {Missing, NormalPng}, scared : {Missing, ScaredPng}])

\* ------------------------------------------------- connection teardown
\* The session task of c ends (error result, panic or disconnect): its
\* channels are gone and the handler is dropped, which spawns the removal.
ClosedChans(c) ==
    [ch \in Chans |-> IF chan[c][ch] = "none" THEN "none" ELSE "closed"]

Teardown(c) ==
    /\ hstate' = [hstate EXCEPT ![c] = "dropped"]
    /\ hpc' = [hpc EXCEPT ![c] = "idle"]
    /\ hcall' = [hcall EXCEPT ![c] = IdleCall]
    /\ chan' = [chan EXCEPT ![c] = ClosedChans(c)]
    /\ dpc' = [dpc EXCEPT ![c] = "spawned"]
    /\ UNCHANGED hid

\* the transport delivers one more client event
Event ==
    /\ events < MaxEvents
    /\ events' = events + 1

\* ------------------------------------------------------------- new_client
\* mutant: the server's id is not advanced
NextId_Same(i) == i

\* self.id += 1
NextId(i) == i + 1

NewClient(c) ==
    /\ Event
    /\ hstate[c] = "none"
    /\ \A d \in Conns : d < c => hstate[d] # "none"
    /\ hstate' = [hstate EXCEPT ![c] = "live"]
    /\ hid' = [hid EXCEPT ![c] = id]
    /\ id' = NextId(id)
    /\ UNCHANGED <<hpc, hcall, chan, clients, lock, svars, dpc, fvars, files>>

Idle(c) == hstate[c] = "live" /\ hpc[c] = "idle"

\* --------------------------------------------------- channel_open_session
ChannelOpenBegin(c, ch) ==
    /\ Event
    /\ Idle(c)
    /\ chan[c][ch] = "none"
    /\ \A x \in Chans : x < ch => chan[c][x] # "none"
    /\ chan' = [chan EXCEPT ![c][ch] = "opening"]
    /\ fpc' = [fpc EXCEPT ![<<c, ch>>] = "recv"]
    /\ hpc' = [hpc EXCEPT ![c] = "open_load"]
    /\ hcall' = [hcall EXCEPT ![c] = [IdleCall EXCEPT !.cb = "open", !.ch = ch]]
    /\ UNCHANGED <<id, files, hstate, hid, clients, lock, svars, dpc, fq>>

\* App { .. normal_pixel_map: load_to_pixel_map("./normal.png"),
\*          scared_pixel_map: load_to_pixel_map("./scared.png") .. }:
\* expect() panics on a file that is missing or does not decode, which ends
\* the session task and drops the terminal built so far
ChannelOpenLoad(c) ==
    /\ hpc[c] = "open_load"
    /\ IF files.normal = Missing \/ files.scared = Missing
       THEN Teardown(c)
       ELSE /\ hcall' = [hcall EXCEPT ![c] =
                    [@ EXCEPT !.normal = load_to_pixel_map(files.normal),
                              !.scared = load_to_pixel_map(files.scared)]]
            /\ hpc' = [hpc EXCEPT ![c] = "open_sleep"]
            /\ UNCHANGED <<hstate, hid, chan, dpc>>
    /\ UNCHANGED <<id, files, clients, lock, svars, fvars, events>>

ChannelOpenAcquire(c) ==
    /\ hpc[c] = "open_sleep"
    /\ Acquire(H(c))
    /\ hpc' = [hpc EXCEPT ![c] = "open_insert"]
    /\ UNCHANGED <<id, files, hstate, hid, hcall, chan, clients, svars, dpc, fvars, events>>

ChannelOpenInsert(c) ==
    /\ hpc[c] = "open_insert"
    /\ clients' = RegistryInsert(clients, hid[c],
                    NewEntry(c, hcall[c].ch, hcall[c].normal, hcall[c].scared))
    /\ lock' = Free
    /\ chan' = [chan EXCEPT ![c][hcall[c].ch] = "open"]
    /\ hpc' = [hpc EXCEPT ![c] = "idle"]
    /\ hcall' = [hcall EXCEPT ![c] = IdleCall]
    /\ UNCHANGED <<id, files, hstate, hid, svars, dpc, fvars, events>>

\* the callbacks below need a channel the transport still routes: an open
\* one, or one the server has closed whose close the client has not answered
Routed(c, ch) == chan[c][ch] \in {"open", "closing"}

\* mutant: session.data(..)?, which returns the error to the transport
ResetOutcome_Escalate(result) == IF result THEN "continue" ELSE "escalate"

\* what the handler does with the Result of sending the reset sequence:
\* `let _ = session.data(..)` discards it
ResetOutcome(result) == "continue"

\* mutant: remove(&id).unwrap(), which panics on an absent id
RemoveOutcome_Unwrap(found) == IF found THEN "continue" ELSE "panic"

\* what a caller does with the Option HashMap::remove returns: all three
\* callers discard it
RemoveOutcome(found) == "continue"

\* the Result the data callback returns after session.close(channel)?
QuitResult(call) == IF call.closeErr THEN "err" ELSE "ok"

\* ---------------------------------------------------------------- data
\* b"q": the reset sequence is handed to session.data, whose Result is
\* discarded; any other input is ignored.
DataBegin(c, ch, byte, sent) ==
    /\ Event
    /\ Idle(c)
    /\ Routed(c, ch)
    /\ IF byte = "q"
       THEN /\ hcall' = [hcall EXCEPT ![c] =
                   [IdleCall EXCEPT !.cb = "data", !.ch = ch,
                                    !.reset = IF sent THEN "ok" ELSE "err",
                                    !.ret = IF ResetOutcome(sent) = "continue"
                                            THEN "none" ELSE "err"]]
            /\ hpc' = [hpc EXCEPT ![c] =
                   IF ResetOutcome(sent) = "continue" THEN "q_lock" ELSE "ret"]
       ELSE UNCHANGED <<hpc, hcall>>
    /\ UNCHANGED <<id, files, hstate, hid, chan, clients, lock, svars, dpc, fvars>>

QuitAcquire(c) ==
    /\ hpc[c] = "q_lock"
    /\ Acquire(H(c))
    /\ hpc' = [hpc EXCEPT ![c] = "q_remove"]
    /\ UNCHANGED <<id, files, hstate, hid, hcall, chan, clients, svars, dpc, fvars, events>>

\* mutant: the channel is closed without the Registry removal before it
QuitRemove_Skip(c) ==
    /\ hpc[c] = "q_remove"
    /\ lock' = Free
    /\ hpc' = [hpc EXCEPT ![c] = "q_close"]
    /\ UNCHANGED <<id, files, hstate, hid, hcall, chan, clients, svars, dpc, fvars, events>>

\* self.clients.lock().await.remove(&self.id): the guard is a temporary
QuitRemove(c) ==
    /\ hpc[c] = "q_remove"
    /\ clients' = RegistryRemove(clients, hid[c])
    /\ lock' = Free
    /\ IF RemoveOutcome(hid[c] \in DOMAIN clients) = "continue"
       THEN /\ hpc' = [hpc EXCEPT ![c] = "q_close"]
            /\ UNCHANGED <<hstate, hid, hcall, chan, dpc>>
       ELSE Teardown(c)
    /\ UNCHANGED <<id, files, svars, fvars, events>>

\* session.close(channel)?
QuitClose(c, closed) ==
    /\ hpc[c] = "q_close"
    /\ chan' = [chan EXCEPT ![c][hcall[c].ch] = IF closed THEN "closing" ELSE @]
    /\ hcall' = [hcall EXCEPT ![c] =
            [@ EXCEPT !.closeErr = ~closed,
                      !.ret = QuitResult([hcall[c] EXCEPT !.closeErr = ~closed])]]
    /\ hpc' = [hpc EXCEPT ![c] = "ret"]
    /\ UNCHANGED <<id, files, hstate, hid, clients, lock, svars, dpc, fvars, events>>

\* ------------------------------------------------------ channel_close
ChannelCloseBegin(c, ch, sent) ==
    /\ Event
    /\ Idle(c)
    /\ Routed(c, ch)
    /\ hcall' = [hcall EXCEPT ![c] =
            [IdleCall EXCEPT !.cb = "channel_close", !.ch = ch,
                             !.reset = IF sent THEN "ok" ELSE "err",
                             !.ret = IF ResetOutcome(sent) = "continue"
                                     THEN "none" ELSE "err"]]
    /\ hpc' = [hpc EXCEPT ![c] =
            IF ResetOutcome(sent) = "continue" THEN "cc_lock" ELSE "ret"]
    /\ UNCHANGED <<id, files, hstate, hid, chan, clients, lock, svars, dpc, fvars>>

ChannelCloseAcquire(c) ==
    /\ hpc[c] = "cc_lock"
    /\ Acquire(H(c))
    /\ hpc' = [hpc EXCEPT ![c] = "cc_remove"]
    /\ UNCHANGED <<id, files, hstate, hid, hcall, chan, clients, svars, dpc, fvars, events>>

ChannelCloseRemove(c) ==
    /\ hpc[c] = "cc_remove"
    /\ clients' = RegistryRemove(clients, hid[c])
    /\ lock' = Free
    /\ IF RemoveOutcome(hid[c] \in DOMAIN clients) = "continue"
       THEN /\ hcall' = [hcall EXCEPT ![c].ret = "ok"]
            /\ hpc' = [hpc EXCEPT ![c] = "ret"]
            /\ UNCHANGED <<hstate, hid, chan, dpc>>
       ELSE Teardown(c)
    /\ UNCHANGED <<id, files, svars, fvars, events>>

\* The callback returns to the transport. An Err ends the connection; after
\* an Ok from channel_close the transport releases the channel.
HandlerReturn(c) ==
    /\ hpc[c] = "ret"
    /\ IF hcall[c].ret = "err"
       THEN Teardown(c)
       ELSE /\ hpc' = [hpc EXCEPT ![c] = "idle"]
            /\ hcall' = [hcall EXCEPT ![c] = IdleCall]
            /\ chan' = [chan EXCEPT ![c][hcall[c].ch] =
                    IF hcall[c].cb = "channel_close" THEN "closed" ELSE @]
            /\ UNCHANGED <<hstate, hid, dpc>>
    /\ UNCHANGED <<id, files, clients, lock, svars, fvars, events>>

\* ------------------------------- window_change_request and pty_request
WindowChangeAcquire(c, ch, size) ==
    /\ Event
    /\ Idle(c)
    /\ Routed(c, ch)
    /\ Acquire(H(c))
    /\ hcall' = [hcall EXCEPT ![c] =
            [IdleCall EXCEPT !.cb = "window_change", !.ch = ch,
                             !.w = size[1], !.h = size[2]]]
    /\ hpc' = [hpc EXCEPT ![c] = "wc_resize"]
    /\ UNCHANGED <<id, files, hstate, hid, chan, clients, svars, dpc, fvars>>

\* clients.get_mut(&self.id).unwrap() panics on a missing entry: the guard is
\* released by the unwinding and the session task ends.
WindowChangeResize(c) ==
    /\ hpc[c] = "wc_resize"
    /\ lock' = Free
    /\ IF hid[c] \in DOMAIN clients
       THEN /\ clients' = [clients EXCEPT ![hid[c]] =
                    TerminalResize(@, MkRect(hcall[c].w, hcall[c].h))]
            /\ fq' = EnqueueN(fq, clients[hid[c]].handle,
                              ResizeFrames(MkRect(hcall[c].w, hcall[c].h)))
            /\ hpc' = [hpc EXCEPT ![c] = "idle"]
            /\ hcall' = [hcall EXCEPT ![c] = IdleCall]
            /\ UNCHANGED <<hstate, hid, chan, dpc>>
       ELSE /\ Teardown(c)
            /\ UNCHANGED <<clients, fq>>
    /\ UNCHANGED <<id, files, svars, fpc, events>>

PtyAcquire(c, ch, size) ==
    /\ Event
    /\ Idle(c)
    /\ Routed(c, ch)
    /\ Acquire(H(c))
    /\ hcall' = [hcall EXCEPT ![c] =
            [IdleCall EXCEPT !.cb = "pty_request", !.ch = ch,
                             !.w = size[1], !.h = size[2]]]
    /\ hpc' = [hpc EXCEPT ![c] = "pty_resize"]
    /\ UNCHANGED <<id, files, hstate, hid, chan, clients, svars, dpc, fvars>>

\* resize and session.channel_success(channel)?; the guard `clients` stays
\* alive to the end of the function, across both awaited sends. An Err of
\* channel_success is returned to the transport.
PtyResize(c, acked) ==
    /\ hpc[c] = "pty_resize"
    /\ IF hid[c] \in DOMAIN clients
       THEN /\ clients' = [clients EXCEPT ![hid[c]] =
                    TerminalResize(@, MkRect(hcall[c].w, hcall[c].h))]
            /\ fq' = EnqueueN(fq, clients[hid[c]].handle,
                              ResizeFrames(MkRect(hcall[c].w, hcall[c].h)))
            /\ IF acked
               THEN /\ hpc' = [hpc EXCEPT ![c] = "pty_send1"]
                    /\ UNCHANGED <<hstate, hid, hcall, chan, dpc, lock>>
               ELSE /\ Teardown(c)
                    /\ lock' = Free
       ELSE /\ Teardown(c)
            /\ lock' = Free
            /\ UNCHANGED <<clients, fq>>
    /\ UNCHANGED <<id, files, svars, fpc, events>>

\* the pc after an awaited send of pty_request completes, and the lock then
PtyNextPc(pc) == IF pc = "pty_send1" THEN "pty_send2" ELSE "idle"
PtyLockAfter(c, pc) == IF pc = "pty_send2" THEN Free ELSE H(c)

\* session.handle().data(..).await completes (Ok, or Err which is printed);
\* while the client does not read, the handler stays here
PtySend(c) ==
    /\ hpc[c] \in {"pty_send1", "pty_send2"}
    /\ hpc' = [hpc EXCEPT ![c] = PtyNextPc(@)]
    /\ lock' = PtyLockAfter(c, hpc[c])
    /\ hcall' = [hcall EXCEPT ![c] = IF hpc[c] = "pty_send2" THEN IdleCall ELSE @]
    /\ UNCHANGED <<id, files, hstate, hid, chan, clients, svars, dpc, fvars, events>>

\* --------------------------------------------------------- disconnect, Drop
\* The connection ends between callbacks; the handler is dropped.
Disconnect(c) ==
    /\ Event
    /\ Idle(c)
    /\ Teardown(c)
    /\ UNCHANGED <<id, files, clients, lock, svars, fvars>>

DropAcquire(c) ==
    /\ dpc[c] = "spawned"
    /\ Acquire(D(c))
    /\ dpc' = [dpc EXCEPT ![c] = "locked"]
    /\ UNCHANGED <<id, files, hvars, clients, svars, fvars, events>>

DropRemove(c) ==
    /\ dpc[c] = "locked"
    /\ clients' = RegistryRemove(clients, hid[c])
    /\ lock' = Free
    /\ dpc' = [dpc EXCEPT ![c] =
            IF RemoveOutcome(hid[c] \in DOMAIN clients) = "continue"
            THEN "done" ELSE "panicked"]
    /\ UNCHANGED <<id, files, hvars, svars, fvars, events>>

\* ------------------------------------------------------- AppServer::run
\* the tick: clients.lock().await is held for the whole for loop
Tick(limit) ==
    /\ spc = "sleep"
    /\ ticks < limit
    /\ Acquire(Sched)
    /\ spc' = "iter"
    /\ todo' = DOMAIN clients
    /\ ticks' = ticks + 1
    /\ UNCHANGED <<id, files, hvars, clients, dpc, fvars, events>>

SchedLock == Tick(MaxTicks)

\* terminal.draw(|f| app.draw(f)).unwrap(): the frame goes to the channel of
\* the entry's TerminalHandle; flush fails, and unwrap panics, only when the
\* receiver is gone
SchedDraw(x) ==
    /\ spc = "iter"
    /\ x \in todo
    /\ IF fpc[clients[x].handle] = "done"
       THEN /\ spc' = "panicked"
            /\ lock' = Free
            /\ todo' = {}
            /\ UNCHANGED <<clients, fq>>
       ELSE /\ \E my1 \in MagnitudesY, my2 \in MagnitudesY,
                  mx1 \in MagnitudesX, mx2 \in MagnitudesX :
                  clients' = [clients EXCEPT ![x] = AppDraw(@, my1, my2, mx1, mx2)]
            /\ fq' = Enqueue(fq, clients[x].handle)
            /\ todo' = todo \ {x}
            /\ UNCHANGED <<spc, lock>>
    /\ UNCHANGED <<id, files, hvars, ticks, dpc, fpc, events>>

SchedUnlock ==
    /\ spc = "iter"
    /\ todo = {}
    /\ lock' = Free
    /\ spc' = "sleep"
    /\ UNCHANGED <<id, files, hvars, clients, todo, ticks, dpc, fvars, events>>

\* ----------------------------------------- TerminalHandle::start, the task
FwdRecv(k) ==
    /\ fpc[k] = "recv"
    /\ fq[k] > 0
    /\ fq' = [fq EXCEPT ![k] = @ - 1]
    /\ fpc' = [fpc EXCEPT ![k] = "send"]
    /\ UNCHANGED <<id, files, hvars, clients, lock, svars, dpc, events>>

\* handle.data(channel_id, data).await completes. A client that has stopped
\* reading keeps the task here for ever (the step is never taken); with the
\* session task gone the send fails at once.
FwdSend(k, ok) ==
    /\ fpc[k] = "send"
    /\ hstate[k[1]] = "dropped" => ~ok
    /\ fpc' = [fpc EXCEPT ![k] = IF ok THEN "recv" ELSE "failed"]
    /\ UNCHANGED <<id, files, hvars, clients, lock, svars, dpc, fq, events>>

\* if result.is_err() { eprintln!("Failed to send data") }, and the loop goes on
FwdLogFailure(k) ==
    /\ fpc[k] = "failed"
    /\ fpc' = [fpc EXCEPT ![k] = "recv"]
    /\ UNCHANGED <<id, files, hvars, clients, lock, svars, dpc, fq, events>>

\* mutant: the task goes on waiting on a channel that has no sender left
FwdExit_Never(k) ==
    /\ FALSE
    /\ UNCHANGED vars

\* receiver.recv() yields None: every sender is dropped and the channel empty
FwdExit(k) ==
    /\ fpc[k] = "recv"
    /\ fq[k] = 0
    /\ ~SenderAlive(k)
    /\ fpc' = [fpc EXCEPT ![k] = "done"]
    /\ UNCHANGED <<id, files, hvars, clients, lock, svars, dpc, fq, events>>

\* the steps of the scheduler and of the connections cs, their handlers, drop
\* tasks and forwarding tasks
NextFor(cs) ==
    \/ \E c \in cs : NewClient(c)
    \/ \E c \in cs, ch \in Chans : ChannelOpenBegin(c, ch)
    \/ \E c \in cs : ChannelOpenLoad(c)
    \/ \E c \in cs : ChannelOpenAcquire(c)
    \/ \E c \in cs : ChannelOpenInsert(c)
    \/ \E c \in cs, ch \in Chans, byte \in {"q", "x"}, sent \in BOOLEAN :
           DataBegin(c, ch, byte, sent)
    \/ \E c \in cs : QuitAcquire(c)
    \/ \E c \in cs : QuitRemove(c)
    \/ \E c \in cs, closed \in BOOLEAN : QuitClose(c, closed)
    \/ \E c \in cs, ch \in Chans, sent \in BOOLEAN : ChannelCloseBegin(c, ch, sent)
    \/ \E c \in cs : ChannelCloseAcquire(c)
    \/ \E c \in cs : ChannelCloseRemove(c)
    \/ \E c \in cs : HandlerReturn(c)
    \/ \E c \in cs, ch \in Chans, size \in Sizes : WindowChangeAcquire(c, ch, size)
    \/ \E c \in cs : WindowChangeResize(c)
    \/ \E c \in cs, ch \in Chans, size \in Sizes : PtyAcquire(c, ch, size)
    \/ \E c \in cs, acked \in BOOLEAN : PtyResize(c, acked)
    \/ \E c \in cs : PtySend(c)
    \/ \E c \in cs : Disconnect(c)
    \/ \E c \in cs : DropAcquire(c)
    \/ \E c \in cs : DropRemove(c)
    \/ SchedLock
    \/ \E x \in 0..MaxConns : SchedDraw(x)
    \/ SchedUnlock
    \/ \E k \in cs \X Chans : FwdRecv(k)
    \/ \E k \in cs \X Chans, ok \in BOOLEAN : FwdSend(k, ok)
    \/ \E k \in cs \X Chans : FwdLogFailure(k)
    \/ \E k \in cs \X Chans : FwdExit(k)

Next == NextFor(Conns)

Spec == Init /\ [][Next]_vars

\* The forwarding tasks are tokio tasks: one that can take a step is
\* scheduled. An awaited handle.data(..) completes, with Ok or with Err: the
\* session task takes the message, or it has ended (at the latest by the
\* inactivity timeout) and the send fails.
FwdFairness ==
    \A k \in Fwds :
        /\ WF_vars(FwdRecv(k))
        /\ WF_vars(\E ok \in BOOLEAN : FwdSend(k, ok))
        /\ WF_vars(FwdLogFailure(k))
        /\ WF_vars(FwdExit(k))

\* a single client, with the scheduling above
OneClientSpec == Init /\ [][NextFor({1})]_vars /\ FwdFairness

\* ------------------------------------------ the animation of one session
\* One client has connected, opened a session channel and sent a pty_request
\* with one of AnimSizes; its frames so far are forwarded. From there only
\* the scheduler runs, for MaxAnimTicks ticks. In a target of GlideSize the
\* sprite meets no boundary for more than 50 ticks; that session is followed
\* for MaxGlideTicks ticks.
GlideSize == <<120, 70>>

AnimSizes == {<<40, 20>>, <<33, 17>>, <<20, 10>>, GlideSize}

\* the entry's target is of GlideSize
Gliding(e) == <<e.width, e.height>> = GlideSize

AnimLimit ==
    IF \E x \in DOMAIN clients : Gliding(clients[x])
    THEN MaxGlideTicks ELSE MaxAnimTicks

AnimInit ==
    /\ events = 3
    /\ id = 1
    /\ hstate = [c \in Conns |-> IF c = 1 THEN "live" ELSE "none"]
    /\ hid = [c \in Conns |-> 0]
    /\ hpc = [c \in Conns |-> "idle"]
    /\ hcall = [c \in Conns |-> IdleCall]
    /\ chan = [c \in Conns |->
                 [ch \in Chans |-> IF c = 1 /\ ch = 1 THEN "open" ELSE "none"]]
    /\ \E size \in AnimSizes :
           clients = RegistryInsert(<< >>, 0,
                         TerminalResize(NewEntry(1, 1, load_to_pixel_map(NormalPng),
                                                 load_to_pixel_map(ScaredPng)),
                                        MkRect(size[1], size[2])))
    /\ lock = Free
    /\ spc = "sleep"
    /\ todo = {}
    /\ ticks = 0
    /\ dpc = [c \in Conns |-> "none"]
    /\ fpc = [k \in Fwds |-> IF k = <<1, 1>> THEN "recv" ELSE "none"]
    /\ fq = [k \in Fwds |-> 0]
    /\ files = [normal |-> NormalPng, scared |-> ScaredPng]

AnimTick == Tick(AnimLimit)

AnimNext ==
    \/ AnimTick
    \/ \E x \in 0..MaxConns : SchedDraw(x)
    \/ SchedUnlock

AnimSpec == AnimInit /\ [][AnimNext]_vars

\* ------------------------------------------------ the loader at work
\* The working directory holds any image of at most MaxImgCols columns and
\* MaxImgRows rows as ./normal.png; one client connects and opens session
\* channels, each of which loads the files.
LoadInit == Boot([normal : Images \cup {Missing}, scared : {Missing, ScaredPng}])

LoadNext ==
    \/ NewClient(1)
    \/ \E ch \in Chans : ChannelOpenBegin(1, ch)
    \/ ChannelOpenLoad(1)
    \/ ChannelOpenAcquire(1)
    \/ ChannelOpenInsert(1)
    \/ DropAcquire(1)
    \/ DropRemove(1)
    \/ \E ch \in Chans : FwdExit(<<1, ch>>)

LoadSpec == LoadInit /\ [][LoadNext]_vars

\* ===================================================================
\* Properties
\* ===================================================================

\* positions at which a handler is inside its critical section
LockedPcs == {"open_insert", "q_remove", "cc_remove", "wc_resize",
              "pty_resize", "pty_send1", "pty_send2"}
\* positions at which a handler awaits a send to the client
AwaitSendPcs == {"pty_send1", "pty_send2"}
\* positions of the data callback handling b"q"
QuitPcs == {"q_lock", "q_remove", "q_close"}

InRegistry(c) == hid[c] \in DOMAIN clients

\* the parties that are inside the Registry right now
Inside ==
    {H(c) : c \in {d \in Conns : hpc[d] \in LockedPcs}}
    \cup {D(c) : c \in {d \in Conns : dpc[d] = "locked"}}
    \cup (IF spc = "iter" THEN {Sched} ELSE {})

\* C1: Registry access is serialized: while the scheduler is inside a tick no
\* handler and no drop task is inside an insert, resize or removal, and no two
\* of those are inside at once.
C1_RegistrySerialized ==
    Cardinality(Inside) <= 1

\* C1 witness: the scheduler is in the middle of a tick, with a session still
\* to draw, while that session's handler waits to remove it.
C1_Witness ==
    \E c \in Conns :
        /\ spc = "iter"
        /\ hpc[c] = "q_lock"
        /\ InRegistry(c)
        /\ hid[c] \in todo

\* C2: a handler that awaits a send to its client does not hold the Registry
\* lock (the scheduler awaits no send, and a forwarding task takes no lock).
C2_NoSendUnderLock ==
    \A c \in Conns : hpc[c] \in AwaitSendPcs => lock # H(c)

\* C3: when the forwarding task has handled a failed write (printed it and
\* gone back to its loop) the session it writes for is no longer registered.
C3_FailedWriteRemovesSession ==
    [][\A k \in Fwds :
          (fpc[k] = "failed" /\ fpc'[k] = "recv")
              => ~(\E x \in DOMAIN clients' : clients'[x].handle = k)]_vars

\* nothing is in progress: no callback and no removal spawned by a drop
Quiescent ==
    \A c \in Conns : hpc[c] = "idle" /\ dpc[c] \in {"none", "done"}

\* connections with an open session channel
OpenConns ==
    {c \in Conns : hstate[c] = "live" /\ \E ch \in Chans : chan[c][ch] = "open"}

\* C4: at a quiescent point the ids in the Registry are those of the open
\* connections.
C4_RegistryMatchesOpenConnections ==
    Quiescent => DOMAIN clients = {hid[c] : c \in OpenConns}

\* the quit handling or channel_close of c is at work on channel ch
BeingClosed(c, ch) ==
    hcall[c].cb \in {"data", "channel_close"} /\ hcall[c].ch = ch

\* C5: every entry writes to a live channel (of a connection that is not being
\* torn down), and every open session channel that is not just being closed
\* has an entry of its own.
C5_OneEntryPerOpenChannel ==
    /\ \A x \in DOMAIN clients :
           LET k == clients[x].handle
           IN  hstate[k[1]] = "live" => chan[k[1]][k[2]] \in {"open", "closing"}
    /\ \A c \in Conns, ch \in Chans :
           (chan[c][ch] = "open" /\ ~BeingClosed(c, ch))
               => \E x \in DOMAIN clients : clients[x].handle = <<c, ch>>

C7_StalledClientCannotStallScheduler ==
    \A k \in Fwds :
        fpc[k] = "send"
            => \A c \in Conns : ~(lock = H(c) /\ hpc[c] \in AwaitSendPcs)

\* a step of c's handler, or of its drop task, that performs a removal
RemoveStep(c) ==
    \/ hpc[c] \in {"q_remove", "cc_remove"} /\ hpc'[c] # hpc[c]
    \/ dpc[c] = "locked" /\ dpc'[c] # dpc[c]

\* C8: a removal of an absent id changes nothing and raises no error, and any
\* removal leaves exactly the other entries.
C8_RemoveIdempotent ==
    [][\A c \in Conns :
          RemoveStep(c)
              => /\ DOMAIN clients' = DOMAIN clients \ {hid[c]}
                 /\ \A x \in DOMAIN clients' : clients'[x] = clients[x]
                 /\ ~InRegistry(c)
                      => /\ clients' = clients
                         /\ hpc[c] = "q_remove" => hpc'[c] = "q_close"
                         /\ hpc[c] = "cc_remove" => hpc'[c] = "ret"
                         /\ dpc[c] = "locked" => dpc'[c] = "done"]_vars

\* C8 witness: after the quit handling and channel_close have removed the id,
\* the drop task is about to remove it a third time.
C8_Witness ==
    \E c \in Conns :
        /\ dpc[c] = "locked"
        /\ ~InRegistry(c)
        /\ \E ch \in Chans : chan[c][ch] = "closed"

\* C9: on quit and on channel close the reset sequence is tried before the
\* removal, and the channel is closed or released only after the removal.
C9_ResetRemoveRelease ==
    [][\A c \in Conns :
          /\ RemoveStep(c) /\ dpc'[c] = dpc[c] => hcall[c].reset # "none"
          /\ \A ch \in Chans :
                 (/\ hpc[c] \in {"q_close", "ret"}
                  /\ hstate'[c] = "live"
                  /\ chan'[c][ch] # chan[c][ch])
                     => /\ hcall[c].reset # "none"
                        /\ ~InRegistry(c)
                        /\ chan'[c][ch] \in {"closing", "closed"}]_vars

\* C9 witness: the quit handling has closed the channel after the removal.
C9_Witness ==
    \E c \in Conns, ch \in Chans :
        /\ hpc[c] = "ret"
        /\ hcall[c].cb = "data"
        /\ chan[c][ch] = "closing"
        /\ ~InRegistry(c)

\* C10: when sending the reset sequence failed, the session is removed all the
\* same, and the callback returns an error only if closing the channel failed.
C10_ResetFailureNotEscalated ==
    \A c \in Conns :
        (hpc[c] = "ret" /\ hcall[c].reset = "err")
            => /\ ~InRegistry(c)
               /\ hcall[c].ret = "err" => hcall[c].closeErr
               /\ hcall[c].cb = "channel_close" => hcall[c].ret = "ok"

\* C10 witness: the reset sequence could not be sent and the callback returns Ok.
C10_Witness ==
    \E c \in Conns :
        /\ hpc[c] = "ret"
        /\ hcall[c].reset = "err"
        /\ hcall[c].ret = "ok"

\* a step of c's handler that performs the resize of a present session
ResizeStep(c) ==
    /\ hpc[c] \in {"wc_resize", "pty_resize"}
    /\ InRegistry(c)
    /\ hpc'[c] # hpc[c]

\* C11: a resize event with (cols, rows) sets the session's target to
\* width = cols and height = rows and leaves the session's offset and
\* velocity, and every other session's entry, as they are.
C11_ResizeSetsTargetOnly ==
    [][\A c \in Conns :
          ResizeStep(c)
              => /\ DOMAIN clients' = DOMAIN clients
                 /\ clients'[hid[c]].width = hcall[c].w
                 /\ clients'[hid[c]].height = hcall[c].h
                 /\ clients'[hid[c]].offset = clients[hid[c]].offset
                 /\ clients'[hid[c]].sx = clients[hid[c]].sx
                 /\ clients'[hid[c]].sy = clients[hid[c]].sy
                 /\ \A x \in DOMAIN clients \ {hid[c]} :
                        clients'[x] = clients[x]]_vars

\* connections accepted so far (slots are filled in order of acceptance)
Accepted == {c \in Conns : hstate[c] # "none"}

\* C12: the handlers' ids differ from one another, increase in the order of
\* acceptance, and lie below the id the next handler will get, whether or
\* not their sessions are still registered.
C12_IdsUniqueMonotonic ==
    /\ \A c \in Accepted, d \in Accepted : c < d => hid[c] < hid[d]
    /\ \A c \in Accepted : hid[c] < id
    /\ \A x \in DOMAIN clients : \E c \in Accepted : hid[c] = x

\* C12 witness: a connection is accepted and registered after an earlier
\* connection's session has been removed by its drop task.
C12_Witness ==
    \E c \in Conns, d \in Conns :
        /\ c < d
        /\ dpc[c] = "done"
        /\ hstate[d] = "live"
        /\ InRegistry(d)

\* the handle k has no entry in the Registry
NoEntry(k) == ~(\E x \in DOMAIN clients : clients[x].handle = k)

\* c's removal from the Registry has been carried out and c's handler has
\* not gone on since
Removed(c) ==
    \/ hpc[c] = "q_close"
    \/ hpc[c] = "ret" /\ hcall[c].cb \in {"data", "channel_close"}
    \/ dpc[c] = "done"

\* C13: a tick neither draws a removed session nor brings it back, no step
\* enqueues a frame for a handle without an entry, and a tick keeps the
\* set of sessions and does not fail.
C13_RemovedNotTicked ==
    [][/\ \A k \in Fwds : NoEntry(k) => fq'[k] <= fq[k]
       /\ spc = "iter"
             => /\ \A c \in Conns :
                       Removed(c) => hid[c] \notin todo /\ hid[c] \notin DOMAIN clients'
                /\ DOMAIN clients' = DOMAIN clients
                /\ spc' # "panicked"]_vars

\* C13 witness: a tick is drawing the remaining session while another
\* session has been removed by its quit byte.
C13_Witness ==
    \E c \in Conns :
        /\ spc = "iter"
        /\ todo # {}
        /\ hpc[c] = "q_close"
        /\ ~InRegistry(c)

C15_SpritesLoadedAtStartup ==
    /\ \A c \in Conns : hpc[c] # "open_load"
    /\ (files.normal = Missing \/ files.scared = Missing)
           => \A c \in Conns : hstate[c] = "none"

\* the square of the Euclidean speed, in half units
SpeedSq(app) == app.sx * app.sx + app.sy * app.sy

\* C16: the field painted by a session's last draw is the scared one if and
\* only if the Euclidean speed of its velocity exceeds 10.0.
C16_ScaredIffEuclideanSpeedAbove10 ==
    \A x \in DOMAIN clients :
        clients[x].current_map # "none"
            => (clients[x].current_map = "scared"
                    <=> SpeedSq(clients[x]) > F(10, 0) * F(10, 0))

\* the scheduler draws entry x in this step
DrawStep(x) == spc = "iter" /\ x \in todo /\ x \notin todo'

\* C17: in a draw with exactly one of offset.y > 0 and offset.y < -(H - 16)
\* true before it, the y-velocity changes sign; likewise the x-velocity with
\* offset.x > 0 and offset.x < -(W - 32).
C17_ReflectionFlipsSign ==
    [][\A x \in DOMAIN clients :
          DrawStep(x)
              => LET a == clients[x]
                     b == clients'[x]
                     top == a.offset[2] > 0
                     bottom == a.offset[2] < -(F(a.height, 0) - MarginY)
                     right == a.offset[1] > 0
                     left == a.offset[1] < -(F(a.width, 0) - MarginX)
                 IN  /\ (top # bottom) => Signum(b.sy) = -Signum(a.sy)
                     /\ (right # left) => Signum(b.sx) = -Signum(a.sx)]_vars

\* C17 witness: in a target where the two conditions of an axis exclude one
\* another, both velocities have been reflected (they started negative).
C17_Witness ==
    \E x \in DOMAIN clients :
        /\ clients[x].width >= 32
        /\ clients[x].height >= 16
        /\ clients[x].sx > 0
        /\ clients[x].sy > 0

\* the key the claim gives the source pixel at column c, row r (half units):
\* (c, r * 0.5) for r > 1, (c, 0) for rows 0 and 1
ClaimedKey(c, r) == <<2 * c, IF r > 1 THEN r ELSE 0>>

\* the source pixels of img
PixelsOf(img) == (0..(img.w - 1)) \X (0..(img.h - 1))

\* field is what the loader makes of img, as C18 says
LoadedAsClaimed(img, field) ==
    /\ DOMAIN field = {ClaimedKey(p[1], p[2]) : p \in PixelsOf(img)}
    /\ Cardinality(DOMAIN field) = img.w * (IF img.h <= 2 THEN 1 ELSE img.h - 1)
    /\ \A key \in DOMAIN field :
           \E p \in PixelsOf(img) :
               ClaimedKey(p[1], p[2]) = key /\ img.px[p] = field[key]

\* C18: the fields of every registered session are the sprite files loaded
\* with rows 0 and 1 of a column on one key and every later row r on its own
\* key (c, r * 0.5): one entry per key, coloured by a pixel of that key.
C18_LoaderSquashesFirstRows ==
    \A x \in DOMAIN clients :
        /\ LoadedAsClaimed(files.normal, clients[x].normal_pixel_map)
        /\ LoadedAsClaimed(files.scared, clients[x].scared_pixel_map)

\* C18 witness: an image of 2 columns and 2 rows whose rows differ in colour
\* has been loaded into a field of exactly 2 entries.
C18_Witness ==
    \E x \in DOMAIN clients :
        /\ files.normal.w = 2
        /\ files.normal.h = 2
        /\ files.normal.px[<<0, 0>>] # files.normal.px[<<0, 1>>]
        /\ Cardinality(DOMAIN clients[x].normal_pixel_map) = 2

\* C19: a handler that is about to resize finds its session in the Registry.
C19_ResizeFindsSession ==
    \A c \in Conns :
        hpc[c] \in {"wc_resize", "pty_resize"} => InRegistry(c)

\* C20: with a target of at least 32 x 16 the offset stays within one
\* maximal step of the reflection boundaries.
C20_OffsetWithinOneStep ==
    \A x \in DOMAIN clients :
        (clients[x].width >= 32 /\ clients[x].height >= 16)
            => /\ -(F(clients[x].width, 0) - MarginX) - BurstX <= clients[x].offset[1]
               /\ clients[x].offset[1] <= BurstX
               /\ -(F(clients[x].height, 0) - MarginY) - BurstY <= clients[x].offset[2]
               /\ clients[x].offset[2] <= BurstY

\* C21: every session's |vx| is 1.5 or 20.0 and its |vy| is 1.0 or 5.0 (so
\* neither is zero), and a draw in which no boundary condition of an axis
\* holds leaves that axis's velocity as it is: a reflection on the other
\* axis does not touch it.
C21_VelocityMagnitudes ==
    /\ [](\A x \in DOMAIN clients :
              /\ Abs(clients[x].sx) \in {CruiseX, BurstX}
              /\ Abs(clients[x].sy) \in {CruiseY, BurstY}
              /\ clients[x].sx # 0
              /\ clients[x].sy # 0)
    /\ [][\A x \in DOMAIN clients :
             DrawStep(x)
                 => LET a == clients[x]
                        b == clients'[x]
                        top == a.offset[2] > 0
                        bottom == a.offset[2] < -(F(a.height, 0) - MarginY)
                        right == a.offset[1] > 0
                        left == a.offset[1] < -(F(a.width, 0) - MarginX)
                    IN  /\ ~(top \/ bottom) => b.sy = a.sy
                        /\ ~(right \/ left) => b.sx = a.sx]_vars

\* C21 witness: a reflection has set the x-velocity to its burst value and a
\* reflection has set the y-velocity to its cruise value (both velocities
\* start negative).
C21_Witness ==
    \E x \in DOMAIN clients :
        /\ clients[x].sx = BurstX
        /\ clients[x].sy = CruiseY

\* C22: a draw moves the offset by the velocity the session has after that
\* draw's boundary check, and a draw in which no boundary condition holds
\* keeps the velocity; so a session that has met no boundary is, after n
\* ticks, at n times its velocity (-1.5, -1.0).
C22_CheckThenIntegrate ==
    /\ [][\A x \in DOMAIN clients :
             DrawStep(x)
                 => LET a == clients[x]
                        b == clients'[x]
                        free == /\ ~(a.offset[2] > 0)
                                /\ ~(a.offset[2] < -(F(a.height, 0) - MarginY))
                                /\ ~(a.offset[1] > 0)
                                /\ ~(a.offset[1] < -(F(a.width, 0) - MarginX))
                    IN  /\ b.offset = <<a.offset[1] + b.sx, a.offset[2] + b.sy>>
                        /\ free => b.sx = a.sx /\ b.sy = a.sy]_vars
    /\ [](\A x \in DOMAIN clients :
              (Gliding(clients[x]) /\ spc = "sleep")
                  => clients[x].offset = <<ticks * InitSx, ticks * InitSy>>)

\* C22 witness: 50 ticks at velocity (-1.5, -1.0) from (0, 0) have brought
\* the session to (-75.0, -50.0).
C22_Witness ==
    \E x \in DOMAIN clients :
        /\ ticks = 50
        /\ spc = "sleep"
        /\ clients[x].sx = InitSx
        /\ clients[x].sy = InitSy
        /\ clients[x].offset = <<-F(75, 0), -F(50, 0)>>

====
